---- MODULE Spec2Model ----
(***************************************************************************)
(* Model of the two command surfaces of metaflow/plugins:                  *)
(*   tagging_cli.py          tag add / remove / replace / list             *)
(*   airflow/airflow_cli.py  airflow create                                *)
(* Python strings are sequences of character codes, so that startswith,    *)
(* len, sorted and str.format are computed and not assumed.                *)
(***************************************************************************)
EXTENDS Integers, Sequences, FiniteSets, TLC

VARIABLES
    runs,               \* the flow's runs in creation order (metadata store)
    current_namespace,  \* the client's process-global namespace
    cmd,                \* the command invoked and its arguments
    calls,              \* collaborator calls issued so far, in order
    outcome,            \* how the command ended
    echoed,             \* what obj.echo printed, in order
    ret,                \* value returned by the function under call
    runs0,              \* history: the runs when the command was invoked
    namespace0          \* history: the client's namespace at that time

vars == <<runs, current_namespace, cmd, calls, outcome, echoed, ret, runs0, namespace0>>

---------------------------------------------------------------------------
\* Bounds of the model.

\* runs a flow has at most
MaxRuns == 2

\* tags a set handed to format_tags holds at most
MaxTags == 2

---------------------------------------------------------------------------
\* Python values.

\* Python's None: no character has code -1
None == <<-1>>

\* "\n" and " "
NL == 10
SP == 32

\* "production:"
ProductionPrefix == <<112, 114, 111, 100, 117, 99, 116, 105, 111, 110, 58>>
\* "user:"
UserPrefix == <<117, 115, 101, 114, 58>>

\* "user:a", "user:b"
UserA == <<117, 115, 101, 114, 58, 97>>
UserB == <<117, 115, 101, 114, 58, 98>>
\* "production:p"
ProdP == <<112, 114, 111, 100, 117, 99, 116, 105, 111, 110, 58, 112>>
\* "production" (no colon: not a production token)
ProdNoColon == <<112, 114, 111, 100, 117, 99, 116, 105, 111, 110>>
\* "x", "ab", "b"
TagX == <<120>>
TagAB == <<97, 98>>
TagB == <<98>>
\* "production:abcdefghijklmno", 26 characters: wider than both headers
TagLong == <<112, 114, 111, 100, 117, 99, 116, 105, 111, 110, 58, 97, 98, 99,
             100, 101, 102, 103, 104, 105, 106, 107, 108, 109, 110, 111>>

\* str.startswith
StartsWith(s, prefix) ==
    /\ Len(s) >= Len(prefix)
    /\ SubSeq(s, 1, Len(prefix)) = prefix

\* the order of Python's str comparison: by code point, a proper prefix first
RECURSIVE StrLess(_, _)
StrLess(a, b) ==
    IF b = <<>> THEN FALSE
    ELSE IF a = <<>> THEN TRUE
    ELSE IF Head(a) # Head(b) THEN Head(a) < Head(b)
    ELSE StrLess(Tail(a), Tail(b))

Min2(a, b) == IF a <= b THEN a ELSE b

\* max(list) of a non-empty collection of integers
MaxOf(S) == CHOOSE m \in S : \A n \in S : n <= m

\* [v] * n
Repeat(v, n) == [i \in 1..n |-> v]

---------------------------------------------------------------------------
\* tagging_cli.py: the tag table formatter.

\* "*system tags (immutable)*" and "*customized tags*"
HeaderSystem == <<42, 115, 121, 115, 116, 101, 109, 32, 116, 97, 103, 115, 32,
                  40, 105, 109, 109, 117, 116, 97, 98, 108, 101, 41, 42>>
HeaderCustomized == <<42, 99, 117, 115, 116, 111, 109, 105, 122, 101, 100, 32,
                      116, 97, 103, 115, 42>>

\* sorted(collection): a new list, ascending in str order
RECURSIVE sorted(_)
sorted(S) ==
    IF S = {} THEN <<>>
    ELSE LET m == CHOOSE t \in S : \A u \in S \ {t} : StrLess(t, u)
         IN  <<m>> \o sorted(S \ {m})

\* zip(list1, list2)
zip(list1, list2) ==
    [i \in 1..Min2(Len(list1), Len(list2)) |-> <<list1[i], list2[i]>>]

\* zip_longest as the builtin zip: stops at the shorter list
zip_longest_truncating(list1, list2) ==
    [list1 |-> list1, list2 |-> list2, zipped |-> zip(list1, list2)]

\* zip_longest extends the shorter of its two lists in place with None and
\* zips them: the lists as it leaves them, and the pairs it returns
zip_longest(list1, list2) ==
    LET l1 == IF Len(list1) < Len(list2)
              THEN list1 \o Repeat(None, Len(list2) - Len(list1))
              ELSE list1
        l2 == IF Len(list1) < Len(list2) THEN list2
              ELSE IF Len(list1) > Len(list2)
              THEN list2 \o Repeat(None, Len(list1) - Len(list2))
              ELSE list2
    IN  [list1 |-> l1, list2 |-> l2, zipped |-> zip(l1, l2)]

\* "{0:%d}  {1}" % width, then .format(a, b): a left-aligned in a field of
\* at least width characters, two spaces, b
formatter(width, a, b) ==
    LET pad == IF Len(a) < width THEN Repeat(SP, width - Len(a)) ELSE <<>>
    IN  a \o pad \o <<SP, SP>> \o b

\* "\n".join(lines)
RECURSIVE join(_)
join(lines) ==
    IF lines = <<>> THEN <<>>
    ELSE IF Len(lines) = 1 THEN lines[1]
    ELSE lines[1] \o <<NL>> \o join(Tail(lines))

\* format_tags(system_tags, customized_tags), on Python 3
format_tags(system_tags, customized_tags) ==
    LET stag_width == MaxOf({Len(tag) : tag \in system_tags} \cup {Len(HeaderSystem)})
        ctag_width == MaxOf({Len(tag) : tag \in customized_tags} \cup {Len(HeaderCustomized)})
        head == formatter(stag_width + 2, HeaderSystem, HeaderCustomized)
        sep  == formatter(stag_width, Repeat(45, stag_width), Repeat(45, ctag_width))
        pairs == zip_longest(sorted(system_tags), sorted(customized_tags)).zipped
        row(p) == LET stag == IF p[1] # None THEN p[1] ELSE <<>>
                      ctag == IF p[2] # None THEN p[2] ELSE <<>>
                  IN  formatter(stag_width, stag, ctag)
    IN  join(<<head, sep>> \o [i \in 1..Len(pairs) |-> row(pairs[i])])


\* print_tags(metaflow_run_client): the table of a run's tags
print_tags(run) ==
    LET system_tags == run.system_tags
        customized_tags == run.tags \ system_tags
    IN  format_tags(system_tags, customized_tags)

---------------------------------------------------------------------------
\* The metadata client (metaflow.client, metaflow.util): runs, flows and the
\* namespace they are looked up under.

\* obj.flow.name: "F"
flow_name == <<70>>

\* resolve_identity(): the caller is "user:a"
resolve_identity == UserA

\* the id of the i-th run of the flow: "1", "2", ...
RunIdOf(i) == <<48 + i>>

\* what a run can look like: the namespace it belongs to, its system tags
\* and all its tags (system tags included)
RunShapes ==
    { [ns |-> n, system_tags |-> s, tags |-> s \cup u] :
        n \in {UserA, UserB},
        s \in {{}, {UserA}},
        u \in {{}, {ProdP, TagX}} }

\* the stores the flow can have: no run (the flow was never run) up to MaxRuns
Stores ==
    UNION { [1..n -> RunShapes] : n \in 0..MaxRuns }

\* is the run visible under namespace ns; None restricts nothing
InNamespace(run, ns) == ns = None \/ run.ns = ns

\* indices of the flow's runs visible under ns
VisibleRuns(ns) == { i \in DOMAIN runs : InNamespace(runs[i], ns) }

\* Flow(pathspec=flow_name) under namespace ns
Flow(ns) ==
    IF DOMAIN runs = {} THEN "MetaflowNotFound"
    ELSE IF VisibleRuns(ns) = {} THEN "MetaflowNamespaceMismatch"
    ELSE "ok"

\* Flow(...).latest_run.id under namespace ns: the newest visible run
latest_run_id(ns) == RunIdOf(MaxOf(VisibleRuns(ns)))

\* the index of the run with this id, 0 when there is none
RunIndex(run_id) ==
    IF \E i \in DOMAIN runs : RunIdOf(i) = run_id
    THEN CHOOSE i \in DOMAIN runs : RunIdOf(i) = run_id
    ELSE 0

\* Run(pathspec="flow/run_id") under namespace ns
Run(run_id, ns) ==
    IF RunIndex(run_id) = 0 THEN "MetaflowNotFound"
    ELSE IF ~InNamespace(runs[RunIndex(run_id)], ns) THEN "MetaflowNamespaceMismatch"
    ELSE "ok"

\* one collaborator call, as recorded in calls
Call(op, arg) == [op |-> op, arg |-> arg]

---------------------------------------------------------------------------
\* tagging_cli.py: the namespace-aware run resolver.

\* is_prod_token comparing for equality instead of the prefix
is_prod_token_exact(token) == token # None /\ token = ProductionPrefix

is_prod_token(token) == token # None /\ StartsWith(token, ProductionPrefix)

\* how the resolver ends: kind "ok" with the handle (the run's index), or an
\* error kind with what its message names; the calls it made; the namespace
\* it leaves the client in
Resolved(kind, handle, made, ns, info) ==
    [kind |-> kind, handle |-> handle, calls |-> made, namespace |-> ns,
     info |-> info]

NoInfo == [latest_run_id |-> None, namespace |-> None, user_tags |-> {}]

\* check_run_id that lets an absent run_id through
check_run_id_noop(user_namespace, run_id, ns) ==
    [kind |-> "ok", calls |-> <<>>, info |-> NoInfo]

\* check_run_id(user_namespace, flow_name, run_id), the client being under
\* namespace ns: "ok", or the CommandException naming the latest run
check_run_id(user_namespace, run_id, ns) ==
    IF run_id = None
    THEN [kind |-> "missing_run_id",
          calls |-> <<Call("Flow", flow_name), Call("latest_run", flow_name)>>,
          info |-> [latest_run_id |-> latest_run_id(ns),
                    namespace |-> user_namespace, user_tags |-> {}]]
    ELSE [kind |-> "ok", calls |-> <<>>, info |-> NoInfo]

\* the Run lookup whose fallback does not look for a production token
lookup_run_no_prod_check(run_id, user_namespace, made) ==
    LET c1 == made \o <<Call("namespace", user_namespace), Call("Run", run_id)>>
        r1 == Run(run_id, user_namespace)
    IN  IF r1 = "MetaflowNotFound"
        THEN Resolved("run_not_found", 0, c1, user_namespace, NoInfo)
        ELSE IF r1 = "MetaflowNamespaceMismatch"
        THEN LET c2 == c1 \o <<Call("namespace", None), Call("Run", run_id)>>
                 run_tags == runs[RunIndex(run_id)].tags
                 user_tags == { tag \in run_tags : StartsWith(tag, UserPrefix) }
             IN  Resolved("run_namespace_mismatch", 0, c2, None,
                          [latest_run_id |-> None, namespace |-> user_namespace,
                           user_tags |-> user_tags])
        ELSE Resolved("ok", RunIndex(run_id), c1, user_namespace, NoInfo)

\* the Run lookup whose fallback returns the run it found unrestricted
lookup_run_returns_fallback(run_id, user_namespace, made) ==
    LET c1 == made \o <<Call("namespace", user_namespace), Call("Run", run_id)>>
        r1 == Run(run_id, user_namespace)
    IN  IF r1 = "MetaflowNotFound"
        THEN Resolved("run_not_found", 0, c1, user_namespace, NoInfo)
        ELSE IF r1 = "MetaflowNamespaceMismatch"
        THEN LET c2 == c1 \o <<Call("namespace", None), Call("Run", run_id)>>
                 run_tags == runs[RunIndex(run_id)].tags
             IN  IF \E tag \in run_tags : is_prod_token(tag)
                 THEN Resolved("forbidden", 0, c2, None, NoInfo)
                 ELSE Resolved("ok", RunIndex(run_id), c2, None, NoInfo)
        ELSE Resolved("ok", RunIndex(run_id), c1, user_namespace, NoInfo)

\* lines 94-121: the Run lookup under the requested namespace and its
\* fallback; made are the calls issued before it
lookup_run(run_id, user_namespace, made) ==
    LET c1 == made \o <<Call("namespace", user_namespace), Call("Run", run_id)>>
        r1 == Run(run_id, user_namespace)
    IN  IF r1 = "MetaflowNotFound"
        THEN Resolved("run_not_found", 0, c1, user_namespace, NoInfo)
        ELSE IF r1 = "MetaflowNamespaceMismatch"
        THEN LET c2 == c1 \o <<Call("namespace", None), Call("Run", run_id)>>
                 r2 == Run(run_id, None)
                 run_tags == runs[RunIndex(run_id)].tags
                 user_tags == { tag \in run_tags : StartsWith(tag, UserPrefix) }
             IN  IF r2 # "ok"
                 THEN Resolved(r2, 0, c2, None, NoInfo)
                 ELSE IF \E tag \in run_tags : is_prod_token(tag)
                 THEN Resolved("forbidden", 0, c2, None, NoInfo)
                 ELSE Resolved("run_namespace_mismatch", 0, c2, None,
                               [latest_run_id |-> None,
                                namespace |-> user_namespace,
                                user_tags |-> user_tags])
        ELSE Resolved("ok", RunIndex(run_id), c1, user_namespace, NoInfo)

\* obtain_metaflow_run_client(obj, run_id, user_namespace)
obtain_metaflow_run_client(run_id, user_namespace) ==
    IF is_prod_token(user_namespace)
    THEN Resolved("forbidden", 0, <<>>, current_namespace, NoInfo)
    ELSE LET c1 == <<Call("namespace", user_namespace), Call("Flow", flow_name)>>
             f  == Flow(user_namespace)
         IN  IF f = "MetaflowNotFound"
             THEN Resolved("flow_not_found", 0, c1, user_namespace, NoInfo)
             ELSE IF f = "MetaflowNamespaceMismatch"
             THEN Resolved("flow_namespace_mismatch", 0, c1, user_namespace,
                           [latest_run_id |-> None, namespace |-> user_namespace,
                            user_tags |-> {}])
             ELSE LET chk == check_run_id(user_namespace, run_id, user_namespace)
                  IN  IF chk.kind # "ok"
                      THEN Resolved(chk.kind, 0, c1 \o chk.calls, user_namespace,
                                    chk.info)
                      ELSE lookup_run(run_id, user_namespace, c1)

\* list_runs(obj, user_namespace): the visible runs, or the client's own
\* exception, which no handler catches
list_runs(user_namespace) ==
    LET made == <<Call("namespace", user_namespace), Call("Flow", flow_name)>>
        f == Flow(user_namespace)
    IN  IF f # "ok"
        THEN [kind |-> f, runs |-> {}, calls |-> made]
        ELSE [kind |-> "ok", runs |-> VisibleRuns(user_namespace),
              calls |-> made \o <<Call("runs", flow_name)>>]


---------------------------------------------------------------------------
\* tagging_cli.py: the commands.

\* "Operation successful. New tags:"
Banner == <<79, 112, 101, 114, 97, 116, 105, 111, 110, 32, 115, 117, 99, 99,
            101, 115, 115, 102, 117, 108, 46, 32, 78, 101, 119, 32, 116, 97,
            103, 115, 58>>

Pending == [kind |-> "pending", info |-> NoInfo]
NoCmd == [name |-> "none"]
Idle == cmd = NoCmd /\ outcome = Pending

\* --run-id values: absent, each run the flow can have, and one it has not
RunIdArgs == {None} \cup { RunIdOf(i) : i \in 1..(MaxRuns + 1) }
\* --namespace values
NamespaceArgs == {None, UserA, UserB, ProdP, ProdNoColon}
\* TAG... of add and remove (at least one), and OLD NEW of replace
TagArgs == {{TagX}, {TagB, ProdP}}
ReplaceArgs == {<<TagX, TagB>>, <<ProdP, TagX>>}

\* the run's tags after the client's add_tag / remove_tag / replace_tag;
\* system tags are immutable
Mutated(run, op, tags) ==
    IF op = "add_tag" THEN run.tags \cup tags
    ELSE IF op = "remove_tag" THEN run.tags \ (tags \ run.system_tags)
    ELSE (run.tags \ ({tags[1]} \ run.system_tags)) \cup {tags[2]}

\* how a command leaves the program: every variable's next value
Finish(r) ==
    /\ cmd' = r.cmd
    /\ current_namespace' = r.namespace
    /\ outcome' = r.outcome
    /\ calls' = r.calls
    /\ runs' = r.runs
    /\ echoed' = r.echoed
    /\ UNCHANGED <<ret, runs0, namespace0>>

\* the shared body, calling the mutation again when the client refused
tag_command_retry(name, op, run_id, user_namespace, tags) ==
    LET ns  == IF user_namespace = None THEN resolve_identity ELSE user_namespace
        res == obtain_metaflow_run_client(run_id, ns)
        run == runs[res.handle]
        new == [run EXCEPT !.tags = Mutated(run, op, tags)]
        base == [cmd |-> [name |-> name, run_id |-> run_id,
                          user_namespace |-> user_namespace, tags |-> tags],
                 namespace |-> res.namespace,
                 outcome |-> [kind |-> res.kind, info |-> res.info],
                 calls |-> res.calls, runs |-> runs, echoed |-> echoed]
        issued == res.calls \o <<Call(op, RunIdOf(res.handle))>>
        done == [base EXCEPT !.calls = issued,
                             !.runs = [runs EXCEPT ![res.handle] = new],
                             !.echoed = <<Banner, print_tags(new)>>]
        refused == [base EXCEPT !.calls = issued \o <<Call(op, RunIdOf(res.handle))>>,
                                !.outcome = [kind |-> "client_rejected",
                                             info |-> NoInfo]]
    IN  IF res.kind # "ok" THEN {base}
        ELSE IF \E tag \in run.tags : is_prod_token(tag) THEN {done, refused}
        ELSE {done}

\* the body the three mutating commands share: resolve the run, issue the
\* one mutation, print the banner and the run's new table. The ways it can
\* end: one, or two where the client may itself refuse to mutate a run that
\* carries a production token.
tag_command(name, op, run_id, user_namespace, tags) ==
    LET ns  == IF user_namespace = None THEN resolve_identity ELSE user_namespace
        res == obtain_metaflow_run_client(run_id, ns)
        run == runs[res.handle]
        new == [run EXCEPT !.tags = Mutated(run, op, tags)]
        base == [cmd |-> [name |-> name, run_id |-> run_id,
                          user_namespace |-> user_namespace, tags |-> tags],
                 namespace |-> res.namespace,
                 outcome |-> [kind |-> res.kind, info |-> res.info],
                 calls |-> res.calls, runs |-> runs, echoed |-> echoed]
        issued == res.calls \o <<Call(op, RunIdOf(res.handle))>>
        done == [base EXCEPT !.calls = issued,
                             !.runs = [runs EXCEPT ![res.handle] = new],
                             !.echoed = <<Banner, print_tags(new)>>]
        refused == [base EXCEPT !.calls = issued,
                                !.outcome = [kind |-> "client_rejected",
                                             info |-> NoInfo]]
    IN  IF res.kind # "ok" THEN {base}
        ELSE IF \E tag \in run.tags : is_prod_token(tag) THEN {done, refused}
        ELSE {done}

add(run_id, user_namespace, tags) ==
    /\ Idle
    /\ \E r \in tag_command("add", "add_tag", run_id, user_namespace, tags) :
          Finish(r)

remove(run_id, user_namespace, tags) ==
    /\ Idle
    /\ \E r \in tag_command("remove", "remove_tag", run_id, user_namespace, tags) :
          Finish(r)

replace(run_id, user_namespace, tags) ==
    /\ Idle
    /\ \E r \in tag_command("replace", "replace_tag", run_id, user_namespace, tags) :
          Finish(r)

\* the unions tag_list accumulates over the listed runs
SystemTagsOf(idx) == UNION { runs[i].system_tags : i \in idx }
CustomizedTagsOf(idx) == UNION { runs[i].tags \ runs[i].system_tags : i \in idx }

\* the option checks without the second one
tag_list_usage_first_only(run_id, list_all, my_runs) ==
    IF run_id = None /\ ~list_all /\ ~my_runs THEN "usage_no_selector"
    ELSE "ok"

\* the two option checks tag_list makes before anything else: the usage
\* error it raises, or "ok"
tag_list_usage(run_id, list_all, my_runs) ==
    IF run_id = None /\ ~list_all /\ ~my_runs THEN "usage_no_selector"
    ELSE IF list_all /\ my_runs THEN "usage_all_and_my_runs"
    ELSE "ok"

\* the namespace tag_list resolves a single run under, were it the caller's
tag_list_namespace_identity == resolve_identity

\* the namespace tag_list resolves a single run under: unrestricted
tag_list_namespace == None

\* tag_list(obj, run_id, hide_system_tags, list_all, my_runs)
tag_list(run_id, hide_system_tags, list_all, my_runs) ==
    LET usage == tag_list_usage(run_id, list_all, my_runs)
        user_namespace == IF my_runs THEN resolve_identity ELSE None
        listed == list_runs(user_namespace)
        res == obtain_metaflow_run_client(run_id, tag_list_namespace)
        many == list_all \/ my_runs
        system_tags == IF many THEN SystemTagsOf(listed.runs)
                       ELSE runs[res.handle].system_tags
        customized_tags == IF many THEN CustomizedTagsOf(listed.runs)
                           ELSE runs[res.handle].tags \ runs[res.handle].system_tags
        table == IF hide_system_tags THEN format_tags({}, customized_tags)
                 ELSE format_tags(system_tags, customized_tags)
    IN  /\ Idle
        /\ cmd' = [name |-> "list", run_id |-> run_id,
                   hide_system_tags |-> hide_system_tags,
                   list_all |-> list_all, my_runs |-> my_runs]
        /\ UNCHANGED <<runs, ret, runs0, namespace0>>
        /\ IF usage # "ok"
           THEN /\ outcome' = [kind |-> usage, info |-> NoInfo]
                /\ UNCHANGED <<calls, current_namespace, echoed>>
           ELSE IF many
           THEN /\ calls' = listed.calls
                /\ current_namespace' = user_namespace
                /\ outcome' = [kind |-> listed.kind, info |-> NoInfo]
                /\ echoed' = IF listed.kind = "ok" THEN <<table>> ELSE echoed
           ELSE /\ calls' = res.calls
                /\ current_namespace' = res.namespace
                /\ outcome' = [kind |-> res.kind, info |-> res.info]
                /\ echoed' = IF res.kind = "ok" THEN <<table>> ELSE echoed

Init ==
    /\ runs \in Stores
    /\ current_namespace \in {None, resolve_identity}
    /\ cmd = NoCmd
    /\ calls = <<>>
    /\ outcome = Pending
    /\ echoed = <<>>
    /\ ret = None
    /\ runs0 = runs
    /\ namespace0 = current_namespace

Next ==
    \/ \E r \in RunIdArgs, n \in NamespaceArgs, t \in TagArgs :
          add(r, n, t)
    \/ \E r \in RunIdArgs, n \in NamespaceArgs, t \in TagArgs :
          remove(r, n, t)
    \/ \E r \in RunIdArgs, n \in NamespaceArgs, t \in ReplaceArgs :
          replace(r, n, t)
    \/ \E r \in RunIdArgs, h \in BOOLEAN, a \in BOOLEAN, m \in BOOLEAN :
          tag_list(r, h, a, m)

Spec == Init /\ [][Next]_vars


---------------------------------------------------------------------------
\* The formatter on its own: every pair of tag collections within the bound.

FormatTagUniverse == {TagX, TagAB, TagB, UserA, TagLong}

TagSets == { S \in SUBSET FormatTagUniverse : Cardinality(S) <= MaxTags }

\* a caller holding two tag collections calls format_tags on them
format_tags_call ==
    /\ cmd.name = "format_tags"
    /\ outcome = Pending
    /\ ret' = format_tags(cmd.system_tags, cmd.customized_tags)
    /\ outcome' = [kind |-> "ok", info |-> NoInfo]
    /\ UNCHANGED <<runs, current_namespace, cmd, calls, echoed, runs0, namespace0>>

InitFormat ==
    /\ runs = <<>>
    /\ current_namespace = None
    /\ \E S \in TagSets, U \in TagSets :
          cmd = [name |-> "format_tags", system_tags |-> S, customized_tags |-> U]
    /\ calls = <<>>
    /\ outcome = Pending
    /\ echoed = <<>>
    /\ ret = None
    /\ runs0 = runs
    /\ namespace0 = current_namespace

NextFormat == format_tags_call

SpecFormat == InitFormat /\ [][NextFormat]_vars

---------------------------------------------------------------------------
\* airflow/airflow_cli.py: airflow create.

\* Python truthiness of an optional string: None and "" are falsy
Truthy(s) == s # None /\ s # <<>>

\* VALID_NAME = re.compile("[^a-zA-Z0-9_\-\.]"): .search finds a character
\* outside letters, digits, "_", "-", "."
VALID_NAME(name) ==
    \E i \in 1..Len(name) :
        name[i] \notin (97..122) \cup (65..90) \cup (48..57) \cup {95, 45, 46}

\* current.flow_name "F" and current.project_flow_name "proj.user.a.F"
current_flow_name == flow_name
current_project_flow_name == <<112, 114, 111, 106, 46, 117, 115, 101, 114, 46, 97, 46, 70>>

\* resolve_dag_name(name), current.get("project_name") being project
resolve_dag_name(name, project) ==
    IF Truthy(project)
    THEN IF Truthy(name)
         THEN [kind |-> "name_not_supported_for_projects",
               dag_name |-> None, is_project |-> FALSE]
         ELSE [kind |-> "ok", dag_name |-> current_project_flow_name,
               is_project |-> TRUE]
    ELSE IF Truthy(name) /\ VALID_NAME(name)
         THEN [kind |-> "invalid_name", dag_name |-> None, is_project |-> FALSE]
         ELSE [kind |-> "ok",
               dag_name |-> IF Truthy(name) THEN name ELSE current_flow_name,
               is_project |-> FALSE]

\* --max-workers default
DefaultMaxWorkers == 100

\* make_flow(obj, dag_name, tags, namespace, max_workers, is_project, ...):
\* the calls it issues in order, and the Airflow object it returns or the
\* error it ends in
make_flow(dag_name, tags, namespace, max_workers, is_project, file_path, worker_pool, set_active, project) ==
    LET made == <<Call("_attach_decorators", flow_name),
                  Call("_init_step_decorators", flow_name),
                  Call("MetaflowPackage", flow_name),
                  Call("save_data", flow_name),
                  Call("resolve_dag_name", dag_name)>>
        resolved == resolve_dag_name(dag_name, project)
    IN  IF resolved.kind # "ok"
        THEN [kind |-> resolved.kind, calls |-> made, flow |-> None]
        ELSE [kind |-> "ok",
              calls |-> made \o <<Call("Airflow", resolved.dag_name)>>,
              flow |-> [name |-> resolved.dag_name, tags |-> tags,
                        namespace |-> namespace, max_workers |-> max_workers,
                        worker_pool |-> worker_pool,
                        is_project |-> resolved.is_project,
                        file_path |-> file_path, set_active |-> set_active]]

\* "s3://"
S3Scheme == <<115, 51, 58, 47, 47>>
\* FILE_PATH values: absent, "s3://b/d", "out.py"
FilePathArgs == {None, <<115, 51, 58, 47, 47, 98, 47, 100>>, <<111, 117, 116, 46, 112, 121>>}
\* --name values: absent, "", "foo", "a b", "a.b-1_Z"
NameArgs == {None, <<>>, <<102, 111, 111>>, <<97, 32, 98>>, <<97, 46, 98, 45, 49, 95, 90>>}
\* current.get("project_name"): no project, or "proj"
ProjectNames == {None, <<112, 114, 111, 106>>}

\* create(obj, file_path, tags, name, set_active, user_namespace,
\*        max_workers, worker_pool), under project context project
create(file_path, name, set_active, user_namespace, project) ==
    LET made == make_flow(name, <<>>, user_namespace, DefaultMaxWorkers, FALSE,
                          file_path, None, set_active, project)
        compiled_dag_file == made.flow.name
        compiled == made.calls \o <<Call("compile", made.flow.name)>>
    IN  /\ Idle
        /\ cmd' = [name |-> "create", file_path |-> file_path,
                   dag_name |-> name, set_active |-> set_active,
                   user_namespace |-> user_namespace, project |-> project]
        /\ UNCHANGED <<runs, current_namespace, runs0, namespace0>>
        /\ IF made.kind # "ok"
           THEN /\ outcome' = [kind |-> made.kind, info |-> NoInfo]
                /\ calls' = made.calls
                /\ UNCHANGED <<echoed, ret>>
           ELSE /\ outcome' = [kind |-> "ok", info |-> NoInfo]
                /\ ret' = made.flow
                /\ IF file_path = None
                   THEN /\ calls' = compiled
                        /\ echoed' = <<compiled_dag_file>>
                   ELSE IF StartsWith(file_path, S3Scheme)
                   THEN /\ calls' = compiled \o <<Call("s3.put", file_path)>>
                        /\ echoed' = echoed
                   ELSE /\ calls' = compiled \o <<Call("write", file_path)>>
                        /\ echoed' = echoed

InitAirflow ==
    /\ runs = <<>>
    /\ current_namespace = None
    /\ cmd = NoCmd
    /\ calls = <<>>
    /\ outcome = Pending
    /\ echoed = <<>>
    /\ ret = None
    /\ runs0 = runs
    /\ namespace0 = current_namespace

NextAirflow ==
    \E f \in FilePathArgs, n \in NameArgs, a \in BOOLEAN,
       u \in {None, UserA}, p \in ProjectNames :
        create(f, n, a, u, p)

SpecAirflow == InitAirflow /\ [][NextAirflow]_vars


---------------------------------------------------------------------------
\* Vocabulary of the properties.

Mutating == cmd.name \in {"add", "remove", "replace"}

\* the namespace a mutating command hands to the resolver
Requested ==
    IF cmd.user_namespace = None THEN resolve_identity ELSE cmd.user_namespace

\* tag list in its single-run mode
ListsOneRun ==
    /\ cmd.name = "list"
    /\ cmd.run_id # None
    /\ ~cmd.list_all
    /\ ~cmd.my_runs

UsesResolver == Mutating \/ ListsOneRun

RequestedNs == IF Mutating THEN Requested ELSE None

CallsOf(ops) == { i \in 1..Len(calls) : calls[i].op \in ops }
RunCalls == CallsOf({"Run"})
MutationCalls == CallsOf({"add_tag", "remove_tag", "replace_tag"})

HasProductionTag(run) == \E tag \in run.tags : StartsWith(tag, ProductionPrefix)

\* the run --run-id names existed when the command was invoked
RunExists == \E i \in DOMAIN runs0 : RunIdOf(i) = cmd.run_id
TargetRun == runs0[CHOOSE i \in DOMAIN runs0 : RunIdOf(i) = cmd.run_id]

\* the flow had a run in namespace ns
FlowHasRunIn(ns) == \E i \in DOMAIN runs0 : runs0[i].ns = ns

ClassifiedErrors ==
    {"forbidden", "flow_not_found", "flow_namespace_mismatch",
     "missing_run_id", "run_not_found", "run_namespace_mismatch"}

UsageErrors == {"usage_no_selector", "usage_all_and_my_runs"}

\* a mutating command names an existing run that carries a production token
\* and belongs to another namespace than the requested one
ProductionRunElsewhere ==
    /\ Mutating
    /\ cmd.run_id # None
    /\ RunExists
    /\ TargetRun.ns # Requested
    /\ HasProductionTag(TargetRun)

---------------------------------------------------------------------------
\* C1 as stated: resolving a run that carries a "production:" tag and
\* belongs to another namespace than the requested one always ends in the
\* forbidden-mutation error, whatever other runs the flow has.
C1_ProductionRunAlwaysForbidden ==
    ProductionRunElsewhere => outcome.kind = "forbidden"

\* C1: resolving a run that carries a "production:" tag and belongs to
\* another namespace than the requested one ends in the forbidden-mutation
\* error when the flow has a run in the requested namespace or the requested
\* namespace itself starts with "production:"; when the flow has no run in
\* the requested namespace it ends in the flow namespace-mismatch error.
C1_ProductionRunForbiddenWhenFlowVisible ==
    ProductionRunElsewhere =>
        IF StartsWith(Requested, ProductionPrefix) \/ FlowHasRunIn(Requested)
        THEN outcome.kind = "forbidden"
        ELSE outcome.kind = "flow_namespace_mismatch"

C1_Witness ==
    /\ ProductionRunElsewhere
    /\ ~StartsWith(Requested, ProductionPrefix)
    /\ FlowHasRunIn(Requested)
    /\ Cardinality(RunCalls) = 2
    /\ outcome.kind = "forbidden"

\* C2: airflow create under a project context with --name given ends in
\* the "--name is not supported for @projects" error with no decorator
\* attachment, no package construction and no save_data upload before it.
C2_NameErrorBeforePackaging ==
    (cmd.name = "create" /\ Truthy(cmd.project) /\ Truthy(cmd.dag_name)) =>
        /\ outcome.kind = "name_not_supported_for_projects"
        /\ CallsOf({"_attach_decorators", "_init_step_decorators",
                    "MetaflowPackage", "save_data"}) = {}

\* how many of run_id, --all, --my-runs a tag list invocation chose
SelectorsChosen ==
    (IF cmd.run_id # None THEN 1 ELSE 0) + (IF cmd.list_all THEN 1 ELSE 0)
        + (IF cmd.my_runs THEN 1 ELSE 0)

\* C3: tag list looks anything up only when exactly one of run_id, --all,
\* --my-runs is chosen; every other combination is a usage error raised
\* before any client lookup.
C3_ExactlyOneSelector ==
    cmd.name = "list" =>
        /\ SelectorsChosen # 1 => (outcome.kind \in UsageErrors /\ calls = <<>>)
        /\ calls # <<>> => SelectorsChosen = 1

\* C4: a requested namespace starting with "production:" always ends in the
\* forbidden-mutation error with no namespace set and no Flow or Run lookup
\* made, whatever the flow's runs and whatever run_id.
C4_ProductionNamespaceFailsBeforeLookup ==
    (Mutating /\ StartsWith(cmd.user_namespace, ProductionPrefix)) =>
        /\ outcome.kind = "forbidden"
        /\ calls = <<>>
        /\ current_namespace = namespace0
        /\ runs = runs0

C4_Witness ==
    /\ Mutating
    /\ cmd.user_namespace = ProdP
    /\ cmd.run_id = None
    /\ runs0 = <<>>
    /\ outcome.kind = "forbidden"

\* C5: tag list with none of --run-id, --all, --my-runs, and tag list with
\* both --all and --my-runs, each end in a usage error with no client call
\* made (no namespace set, no lookup, no enumeration) and nothing printed.
C5_UsageErrorsBeforeClientCalls ==
    cmd.name = "list" =>
        /\ (cmd.run_id = None /\ ~cmd.list_all /\ ~cmd.my_runs) =>
              outcome.kind = "usage_no_selector"
        /\ (cmd.list_all /\ cmd.my_runs) =>
              outcome.kind = "usage_all_and_my_runs"
        /\ ((cmd.run_id = None /\ ~cmd.list_all /\ ~cmd.my_runs)
               \/ (cmd.list_all /\ cmd.my_runs)) =>
              /\ calls = <<>>
              /\ echoed = <<>>
              /\ current_namespace = namespace0

C5_Witness ==
    /\ cmd.name = "list"
    /\ cmd.list_all
    /\ cmd.my_runs
    /\ runs0 # <<>>
    /\ outcome.kind = "usage_all_and_my_runs"

\* the lines of a text
RECURSIVE SplitLines(_)
SplitLines(text) ==
    IF \A i \in 1..Len(text) : text[i] # NL THEN <<text>>
    ELSE LET k == CHOOSE i \in 1..Len(text) :
                    text[i] = NL /\ \A j \in 1..(i - 1) : text[j] # NL
         IN  <<SubSeq(text, 1, k - 1)>> \o SplitLines(SubSeq(text, k + 1, Len(text)))

\* the i-th smallest tag of S, "" past its end
NthTag(S, i) ==
    IF i > Cardinality(S) THEN <<>>
    ELSE CHOOSE t \in S : Cardinality({ u \in S : StrLess(u, t) }) = i - 1

\* the width of the system column: its widest tag, the header at least
SystemWidth(S) ==
    IF \E t \in S : Len(t) > Len(HeaderSystem)
    THEN CHOOSE w \in { Len(t) : t \in S } : \A u \in S : Len(u) <= w
    ELSE Len(HeaderSystem)

\* data row i: the system tag in its column, two spaces, the other tag
ExpectedRow(S, U, i) ==
    LET stag == NthTag(S, i)
    IN  stag \o [k \in 1..(SystemWidth(S) - Len(stag) + 2) |-> SP] \o NthTag(U, i)

LatestRunIn(ns) ==
    CHOOSE i \in DOMAIN runs0 :
        /\ runs0[i].ns = ns
        /\ \A j \in DOMAIN runs0 : runs0[j].ns = ns => j <= i

\* C7: when the resolver is called with run_id absent and the flow is found
\* under the requested namespace, it ends in the "Please run with --run-id"
\* error naming the newest run the flow has under that namespace and the
\* requested namespace; no Run lookup is made, no handle is returned and
\* nothing is mutated.
C7_AbsentRunIdIsAnError ==
    (/\ Mutating
     /\ cmd.run_id = None
     /\ ~StartsWith(Requested, ProductionPrefix)
     /\ FlowHasRunIn(Requested)) =>
        /\ outcome.kind = "missing_run_id"
        /\ outcome.info.latest_run_id = RunIdOf(LatestRunIn(Requested))
        /\ outcome.info.namespace = Requested
        /\ RunCalls = {}
        /\ MutationCalls = {}
        /\ runs = runs0

C7_Witness ==
    /\ Mutating
    /\ cmd.run_id = None
    /\ Len(runs0) = 2
    /\ runs0[1].ns = Requested
    /\ runs0[2].ns # Requested
    /\ outcome.kind = "missing_run_id"
    /\ outcome.info.latest_run_id = RunIdOf(1)

\* C8: in tag add, remove and replace, when run resolution ends in a
\* classified error no add_tag / remove_tag / replace_tag call is issued and
\* every run keeps its tags; a mutation call is issued at most once, as the
\* last call, and only after the resolver's Run lookup returned a handle.
C8_NoMutationOnResolutionError ==
    Mutating =>
        /\ Cardinality(MutationCalls) <= 1
        /\ outcome.kind \in ClassifiedErrors =>
              (MutationCalls = {} /\ runs = runs0 /\ echoed = <<>>)
        /\ runs # runs0 => MutationCalls # {}
        /\ MutationCalls # {} =>
              /\ outcome.kind \in {"ok", "client_rejected"}
              /\ MutationCalls = {Len(calls)}
              /\ calls[Len(calls) - 1].op = "Run"
              /\ RunExists
              /\ TargetRun.ns = Requested
              /\ calls[Len(calls)].arg = cmd.run_id

C8_Witness ==
    /\ Mutating
    /\ RunExists
    /\ outcome.kind = "run_namespace_mismatch"
    /\ outcome.info.user_tags # {}
    /\ MutationCalls = {}

\* C9: the unrestricted lookup (namespace set to None, then Run) is made
\* only right after the Run lookup under the requested namespace found the
\* run outside it, at most once, and ends the resolver in an error; a
\* handle is returned only for a run found under the requested namespace,
\* and the client is then left in the requested namespace.
C9_TwoPhaseLookup ==
    UsesResolver =>
        /\ Cardinality(RunCalls) <= 2
        /\ \A i \in RunCalls : i > 1 /\ calls[i - 1].op = "namespace"
        /\ \A i \in RunCalls :
              (\A j \in RunCalls : i <= j) => calls[i - 1].arg = RequestedNs
        /\ Cardinality(RunCalls) = 2 =>
              /\ RunCalls = {Len(calls) - 2, Len(calls)}
              /\ calls[Len(calls) - 1] = Call("namespace", None)
              /\ RequestedNs # None
              /\ RunExists
              /\ TargetRun.ns # RequestedNs
              /\ outcome.kind \in {"forbidden", "run_namespace_mismatch"}
        /\ outcome.kind \in {"ok", "client_rejected"} =>
              /\ Cardinality(RunCalls) = 1
              /\ RunExists
              /\ (RequestedNs = None \/ TargetRun.ns = RequestedNs)
              /\ current_namespace = RequestedNs

C9_Witness ==
    /\ Mutating
    /\ Cardinality(RunCalls) = 2
    /\ outcome.kind = "run_namespace_mismatch"
    /\ current_namespace = None

\* C10 as stated: tag list with a run_id alone, for an existing run of
\* whatever namespace and tags, never ends in an error, changes no tags and
\* prints the run's system tags and its other tags.
C10_ListPrintsSystemTags ==
    (ListsOneRun /\ RunExists) =>
        /\ outcome.kind = "ok"
        /\ runs = runs0
        /\ echoed = <<format_tags(TargetRun.system_tags,
                                  TargetRun.tags \ TargetRun.system_tags)>>

\* C10: tag list with a run_id alone, for an existing run of whatever
\* namespace and tags, never ends in an error, changes no tags and prints
\* the run's other tags beside its system tags, the system column being
\* empty under --hide-system-tags.
C10_ListOneRunUnrestricted ==
    (ListsOneRun /\ RunExists) =>
        /\ outcome.kind = "ok"
        /\ runs = runs0
        /\ MutationCalls = {}
        /\ echoed = <<format_tags(IF cmd.hide_system_tags THEN {}
                                  ELSE TargetRun.system_tags,
                                  TargetRun.tags \ TargetRun.system_tags)>>

C10_Witness ==
    /\ ListsOneRun
    /\ RunExists
    /\ TargetRun.ns # resolve_identity
    /\ HasProductionTag(TargetRun)
    /\ TargetRun.system_tags # {}
    /\ ~cmd.hide_system_tags
    /\ outcome.kind = "ok"
    /\ echoed # <<>>

====
